---- MODULE Spec2Model ----
(***************************************************************************)
(* Model of the vocabulary-tutor exercise core: ExerciseGenerator          *)
(* (src/exercises/generator.py), the exercise data model                   *)
(* (src/exercises/models.py) and ExerciseExporter                          *)
(* (src/exercises/export.py).                                              *)
(*                                                                         *)
(* Strings are sequences of one-character strings, so that lower-casing,   *)
(* substitution, splitting and shuffling are computed, not assumed.        *)
(* random.sample / random.shuffle / uuid4 / datetime.now are               *)
(* nondeterministic choices over every outcome they can produce.           *)
(* MatchingPair.id (a further uuid4 draw per pair) is left out and the id   *)
(* of an ExerciseSet is one token: no operation reads either.  Clock       *)
(* readings never decrease.                                                *)
(***************************************************************************)
EXTENDS Integers, Sequences, FiniteSets, TLC

\* ------------------------------------------------------------------ bounds
MaxVocab == 2      \* most items in the vocabulary list of a generator
MaxCount == 2      \* largest count requested from a generation operation
MaxId == 2         \* size of the space uuid4().hex[:8] draws from
MaxTime == 1       \* number of clock readings datetime.now can return
MaxExports == 2
MaxKept == 2    \* exports performed in one run

None == "None"

\* ------------------------------------------------------------ enumerations
EASY == "easy"
MEDIUM == "medium"
HARD == "hard"
Difficulty == <<EASY, MEDIUM, HARD>>
Difficulties == {Difficulty[i] : i \in 1..Len(Difficulty)}

FILL_IN_BLANK == "fill_in_blank"
MATCHING == "matching"
SPELLING == "spelling"
HANGMAN == "hangman"
ExerciseType == <<FILL_IN_BLANK, MATCHING, SPELLING, HANGMAN>>
ExerciseTypes == {ExerciseType[i] : i \in 1..Len(ExerciseType)}

DIFFICULTY_CONFIG ==
  [d \in Difficulties |->
     CASE d = EASY ->
            [max_word_length |-> 6, show_hints |-> TRUE, matching_pairs |-> 4,
             hangman_attempts |-> 8, reveal_first_letter |-> TRUE]
       [] d = MEDIUM ->
            [max_word_length |-> 10, show_hints |-> TRUE, matching_pairs |-> 6,
             hangman_attempts |-> 6, reveal_first_letter |-> FALSE]
       [] d = HARD ->
            [max_word_length |-> 100, show_hints |-> FALSE, matching_pairs |-> 8,
             hangman_attempts |-> 5, reveal_first_letter |-> FALSE]]

\* ------------------------------------------------------------ text helpers
UpperChars == <<"A", "G", "S", "T", "W", "I", "U", "O", "B">>
LowerChars == <<"a", "g", "s", "t", "w", "i", "u", "o", "b">>

\* str.lower() on one character
LowerChar(c) ==
  IF \E i \in 1..Len(UpperChars) : UpperChars[i] = c
    THEN LowerChars[CHOOSE i \in 1..Len(UpperChars) : UpperChars[i] = c]
    ELSE c

\* str.upper() on one character
UpperChar(c) ==
  IF \E i \in 1..Len(LowerChars) : LowerChars[i] = c
    THEN UpperChars[CHOOSE i \in 1..Len(LowerChars) : LowerChars[i] = c]
    ELSE c

\* str.lower()
Lower(s) == [i \in 1..Len(s) |-> LowerChar(s[i])]

Rep(c, n) == [i \in 1..n |-> c]

BLANK == <<"_", "_", "_">>

\* "needle in hay" for strings
Contains(hay, needle) ==
  \E i \in 1..(Len(hay) - Len(needle) + 1) :
     SubSeq(hay, i, i + Len(needle) - 1) = needle

\* re.compile(re.escape(english), re.IGNORECASE).sub("___", example), for a
\* non-empty pattern: leftmost non-overlapping matches, scanning from i
RECURSIVE SubFrom(_, _, _)
SubFrom(english, example, i) ==
  IF i > Len(example) THEN <<>>
  ELSE IF /\ i + Len(english) - 1 <= Len(example)
          /\ Lower(SubSeq(example, i, i + Len(english) - 1)) = Lower(english)
         THEN BLANK \o SubFrom(english, example, i + Len(english))
         ELSE <<example[i]>> \o SubFrom(english, example, i + 1)

PatternSub(english, example) == SubFrom(english, example, 1)

\* str.split(): the maximal runs of non-blank characters
RECURSIVE SplitFrom(_, _, _)
SplitFrom(s, i, cur) ==
  IF i > Len(s) THEN (IF cur = <<>> THEN <<>> ELSE <<cur>>)
  ELSE IF s[i] = " "
         THEN (IF cur = <<>> THEN <<>> ELSE <<cur>>) \o SplitFrom(s, i + 1, <<>>)
         ELSE SplitFrom(s, i + 1, Append(cur, s[i]))

Split(s) == SplitFrom(s, 1, <<>>)

\* str.split(";")[0].strip()
RECURSIVE LStrip(_)
LStrip(s) == IF s # <<>> /\ Head(s) = " " THEN LStrip(Tail(s)) ELSE s

RECURSIVE RStrip(_)
RStrip(s) ==
  IF s # <<>> /\ s[Len(s)] = " " THEN RStrip(SubSeq(s, 1, Len(s) - 1)) ELSE s

Strip(s) == LStrip(RStrip(s))

FirstField(s) ==
  LET cut == CHOOSE i \in 1..Len(s) :
               s[i] = ";" /\ \A j \in 1..(i - 1) : s[j] # ";"
  IN SubSeq(s, 1, cut - 1)

\* ------------------------------------------------------------------ random
SeqRemove(s, i) == SubSeq(s, 1, i - 1) \o SubSeq(s, i + 1, Len(s))

\* every outcome of random.shuffle on a copy of s: all arrangements of s
RECURSIVE Shuffles(_)
Shuffles(s) ==
  IF s = <<>> THEN {<<>>}
  ELSE UNION { {<<s[i]>> \o t : t \in Shuffles(SeqRemove(s, i))} :
               i \in {k \in 1..Len(s) : \A j \in 1..(k - 1) : s[j] # s[k]} }

\* every outcome of random.sample(items, k), 0 <= k <= len(items)
Samples(items, k) ==
  { [i \in 1..k |-> items[f[i]]] :
      f \in { g \in [1..k -> 1..Len(items)] :
                \A a, b \in 1..k : a # b => g[a] # g[b] } }

\* -------------------------------------------------------- vocabulary items
\* The items a vocabulary list is drawn from, in the input contract's shape
\* (ids are unique: extract_vocabulary numbers the items it emits).  Long
\* words repeat one letter so that they have a single arrangement.
ItemPool == <<
  [id |-> "v1", sourceForm |-> [text |-> <<"G", "o">>],
   targetForm |-> [text |-> <<"g", "e", "h", "e", "n">>], wordType |-> "verb",
   exampleSentences |-> <<[source |->
      <<"W", "e", " ", "g", "o", " ", "h", "o", "m", "e", ".">>]>>],
  [id |-> "v2", sourceForm |-> [text |-> <<"a", "a">>],
   targetForm |-> [text |-> <<"L", "a", "v", "a">>], wordType |-> "noun",
   exampleSentences |-> <<>>],
  [id |-> "v3", sourceForm |-> [text |-> <<>>],
   targetForm |-> [text |-> <<"l", "e", "e", "r">>], wordType |-> "other",
   exampleSentences |-> <<>>],
  [id |-> "v4", sourceForm |-> [text |-> Rep("e", 7)],
   targetForm |-> [text |-> <<"L", "a", "v", "a", " ", ";", " ",
                              "S", "t", "e", "i", "n">>],
   wordType |-> "adjective", exampleSentences |-> <<>>],
  [id |-> "v5", sourceForm |-> [text |-> Rep("o", 11)],
   targetForm |-> [text |-> <<"o", "h">>], wordType |-> "adverb",
   exampleSentences |-> <<>>],
  [id |-> "v6", sourceForm |-> [text |-> Rep("z", 101)],
   targetForm |-> [text |-> <<"z", "z">>], wordType |-> "unknown",
   exampleSentences |-> <<>>] >>

\* the members of ItemPool at the positions of set S, in pool order
RECURSIVE PickFrom(_, _)
PickFrom(S, i) ==
  IF i > Len(ItemPool) THEN <<>>
  ELSE (IF i \in S THEN <<ItemPool[i]>> ELSE <<>>) \o PickFrom(S, i + 1)

\* the vocabulary lists a generator is constructed from
Vocabularies ==
  { PickFrom(S, 1) : S \in { T \in SUBSET (1..Len(ItemPool)) :
                               Cardinality(T) <= MaxVocab } }

Range(s) == {s[i] : i \in 1..Len(s)}

\* An item whose example sentence holds its word in the plural, an item
\* whose example sentence holds another form of its word, and four short
\* items without examples that share one translation.
Sleeve ==
  [id |-> "v1", sourceForm |-> [text |-> <<"s", "l", "e", "e", "v", "e">>],
   targetForm |-> [text |-> <<"Ä", "r", "m", "e", "l">>], wordType |-> "noun",
   exampleSentences |-> <<[source |->
      <<"S", "h", "e", " ", "h", "a", "s", " ", "s", "h", "o", "r", "t", " ",
        "s", "l", "e", "e", "v", "e", "s", ".">>]>>]

Went ==
  [id |-> "v1", sourceForm |-> [text |-> <<"G", "o">>],
   targetForm |-> [text |-> <<"g", "e", "h", "e", "n">>], wordType |-> "verb",
   exampleSentences |-> <<[source |-> <<"W", "e", " ", "w", "e", "n", "t", ".">>]>>]

ShortItem(id, english, word_type) ==
  [id |-> id, sourceForm |-> [text |-> english],
   targetForm |-> [text |-> <<"a", "n">>], wordType |-> word_type,
   exampleSentences |-> <<>>]

FourShort ==
  <<ShortItem("v1", <<"a", "t">>, "preposition"),
    ShortItem("v2", <<"o", "n">>, "preposition"),
    ShortItem("v3", <<"t", "o">>, "verb"),
    ShortItem("v4", <<"b", "y">>, "adverb")>>

ScenarioVocabularies == {<<Sleeve>>, <<Went>>, FourShort}

\* eight short items that share one translation: two Easy slices of four
EightShort ==
  FourShort \o
  <<ShortItem("v5", <<"i", "n">>, "preposition"),
    ShortItem("v6", <<"u", "p">>, "adverb"),
    ShortItem("v7", <<"o", "f">>, "preposition"),
    ShortItem("v8", <<"a", "s">>, "adverb")>>

\* five of them: one Easy slice and a rest of one
FiveShort == SubSeq(EightShort, 1, 5)

\* two items with the same source word and different translations
Twins ==
  <<[id |-> "v1", sourceForm |-> [text |-> <<"b", "o", "w">>],
     targetForm |-> [text |-> <<"B", "o", "g", "e", "n">>], wordType |-> "noun",
     exampleSentences |-> <<>>],
    [id |-> "v2", sourceForm |-> [text |-> <<"b", "o", "w">>],
     targetForm |-> [text |-> <<"B", "u", "g">>], wordType |-> "noun",
     exampleSentences |-> <<>>]>>

\* ------------------------------------------------------- generator helpers
GetEnglish(item) == item.sourceForm.text

\* _build_indices: the items of each word type and of each word length, in
\* vocabulary order
ByWordType(items) ==
  [word_type \in {items[i].wordType : i \in 1..Len(items)} |->
     SelectSeq(items, LAMBDA item : item.wordType = word_type)]

ByLength(items) ==
  [length \in {Len(GetEnglish(items[i])) : i \in 1..Len(items)} |->
     SelectSeq(items, LAMBDA item : Len(GetEnglish(item)) = length)]

GetGerman(item) ==
  LET text == item.targetForm.text
  IN IF \E i \in 1..Len(text) : text[i] = ";"
       THEN Strip(FirstField(text))
       ELSE text

\* variant: the sentences are looked up under a key the items do not have
GetExampleSentence_WrongKey(item) == None

GetExampleSentence(item) ==
  LET sentences == item.exampleSentences
  IN IF Len(sentences) > 0 THEN sentences[1].source ELSE None

\* Python truthiness of an Optional[str]
Truthy(x) == x # None /\ x # <<>>

\* variant: the length test is dropped from the filter
Eligible_NoLengthTest(item, difficulty) == GetEnglish(item) # <<>>

\* the test of the filter loop for one item
Eligible(item, difficulty) ==
  LET english == GetEnglish(item)
  IN /\ Len(english) <= DIFFICULTY_CONFIG[difficulty].max_word_length
     /\ english # <<>>

FilterByDifficulty(vocab, difficulty) ==
  SelectSeq(vocab, LAMBDA item : Eligible(item, difficulty))

\* random.sample raises ValueError on a negative sample size
SelectRaises(items, count) == Len(items) > count /\ count < 0

\* variant: random.choices, i.e. count draws with replacement
SelectRandom_WithReplacement(items, count) ==
  IF items = <<>> \/ count < 0 THEN {<<>>} ELSE [1..count -> Range(items)]

\* every list _select_random(items, count) can return
SelectRandom(items, count) ==
  IF Len(items) <= count THEN {items} ELSE Samples(items, count)

\* ------------------------------------------------------------ data model
IdSpace == 1..MaxId
Times == 1..MaxTime
Counts == (-1)..MaxCount

\* FillInBlankExercise(...), type fixed by __post_init__
FillInBlankExercise(id, difficulty, vocabulary_ids, sentence, blank_position, correct_answer, hint, word_type) ==
  [id |-> id, type |-> FILL_IN_BLANK, difficulty |-> difficulty,
   vocabulary_ids |-> vocabulary_ids,
   instructions |-> "Fill in the blank with the correct English word.",
   sentence |-> sentence, blank_position |-> blank_position,
   correct_answer |-> correct_answer, hint |-> hint, word_type |-> word_type]

MatchingPair(left, right, vocabulary_id) ==
  [left |-> left, right |-> right, vocabulary_id |-> vocabulary_id]

MatchingExercise(id, difficulty, vocabulary_ids, pairs, shuffled_right) ==
  [id |-> id, type |-> MATCHING, difficulty |-> difficulty,
   vocabulary_ids |-> vocabulary_ids,
   instructions |-> "Match the English words with their German translations.",
   pairs |-> pairs, shuffled_right |-> shuffled_right]

SpellingExercise(id, difficulty, vocabulary_ids, german_word, english_word, scrambled_letters, hint) ==
  [id |-> id, type |-> SPELLING, difficulty |-> difficulty,
   vocabulary_ids |-> vocabulary_ids,
   instructions |-> "Arrange the letters to spell the English word.",
   german_word |-> german_word, english_word |-> english_word,
   scrambled_letters |-> scrambled_letters, hint |-> hint]

HangmanExercise(id, difficulty, vocabulary_ids, word, hint, category, max_attempts, revealed_letters) ==
  [id |-> id, type |-> HANGMAN, difficulty |-> difficulty,
   vocabulary_ids |-> vocabulary_ids,
   instructions |-> "Guess the English word letter by letter.",
   word |-> word, hint |-> hint, category |-> category,
   max_attempts |-> max_attempts, revealed_letters |-> revealed_letters]

\* variant: every set is labelled with the last kind of the enumeration
ExerciseSet_KindLost(id, name, exercise_type, difficulty, exs, created_at) ==
  [id |-> id, name |-> name, exercise_type |-> HANGMAN,
   difficulty |-> difficulty, exercises |-> exs, created_at |-> created_at]

ExerciseSet(id, name, exercise_type, difficulty, exs, created_at) ==
  [id |-> id, name |-> name, exercise_type |-> exercise_type,
   difficulty |-> difficulty, exercises |-> exs, created_at |-> created_at]

\* Exercise.to_dict and its four overrides, dispatched on the exercise class
ExerciseToDict(e) ==
  LET base == [id |-> e.id, type |-> e.type, difficulty |-> e.difficulty,
               vocabularyIds |-> e.vocabulary_ids,
               instructions |-> e.instructions]
  IN CASE e.type = FILL_IN_BLANK ->
            base @@ [sentence |-> e.sentence, blankPosition |-> e.blank_position,
                     correctAnswer |-> e.correct_answer, hint |-> e.hint,
                     wordType |-> e.word_type]
       [] e.type = MATCHING ->
            base @@ [pairs |-> [i \in 1..Len(e.pairs) |->
                                  [left |-> e.pairs[i].left,
                                   right |-> e.pairs[i].right,
                                   vocabularyId |-> e.pairs[i].vocabulary_id]],
                     shuffledRight |-> e.shuffled_right,
                     pairCount |-> Len(e.pairs)]
       [] e.type = SPELLING ->
            base @@ [germanWord |-> e.german_word, englishWord |-> e.english_word,
                     scrambledLetters |-> e.scrambled_letters, hint |-> e.hint,
                     letterCount |-> Len(e.english_word)]
       [] e.type = HANGMAN ->
            base @@ [word |-> e.word, wordLength |-> Len(e.word), hint |-> e.hint,
                     category |-> e.category, maxAttempts |-> e.max_attempts,
                     revealedLetters |-> e.revealed_letters]

ExerciseSetToDict(set) ==
  [id |-> set.id, name |-> set.name, exerciseType |-> set.exercise_type,
   difficulty |-> set.difficulty, exerciseCount |-> Len(set.exercises),
   exercises |-> [i \in 1..Len(set.exercises) |->
                    ExerciseToDict(set.exercises[i])],
   createdAt |-> set.created_at]

\* ------------------------------------------------ exercise construction
TemplateNoun ==
  <<"T", "h", "e", " ", "_", "_", "_", " ", "i", "s", " ",
    "i", "m", "p", "o", "r", "t", "a", "n", "t", ".">>
TemplateVerb ==
  <<"I", " ", "_", "_", "_", " ", "e", "v", "e", "r", "y", " ", "d", "a", "y", ".">>
TemplateAdjective ==
  <<"I", "t", " ", "i", "s", " ", "v", "e", "r", "y", " ", "_", "_", "_", ".">>
TemplateAdverb ==
  <<"S", "h", "e", " ", "d", "i", "d", " ", "i", "t", " ", "_", "_", "_", ".">>
TemplateDefault ==
  <<"T", "h", "e", " ", "w", "o", "r", "d", " ", "i", "s", " ", "_", "_", "_", ".">>

\* templates.get(word_type, "The word is ___.")
Template(word_type) ==
  CASE word_type = "noun" -> TemplateNoun
    [] word_type = "verb" -> TemplateVerb
    [] word_type = "adjective" -> TemplateAdjective
    [] word_type = "adverb" -> TemplateAdverb
    [] OTHER -> TemplateDefault

\* next((i for i, w in enumerate(words) if "___" in w), 0)
FirstBlankToken(words) ==
  IF \E i \in 1..Len(words) : Contains(words[i], BLANK)
    THEN (CHOOSE i \in 1..Len(words) :
            /\ Contains(words[i], BLANK)
            /\ \A j \in 1..(i - 1) : ~Contains(words[j], BLANK)) - 1
    ELSE 0

\* sentence.split().index("___") if "___" in sentence.split() else 0
BlankTokenIndex(words) ==
  IF \E i \in 1..Len(words) : words[i] = BLANK
    THEN (CHOOSE i \in 1..Len(words) :
            /\ words[i] = BLANK
            /\ \A j \in 1..(i - 1) : words[j] # BLANK) - 1
    ELSE 0

\* the body of the loop of generate_fill_in_blank for one selected item
FillInBlankFor(item, difficulty, n) ==
  LET english == GetEnglish(item)
      german == GetGerman(item)
      word_type == item.wordType
      example == GetExampleSentence(item)
      sentence == IF Truthy(example) THEN PatternSub(english, example)
                  ELSE Template(word_type)
      blank_pos == IF Truthy(example) THEN FirstBlankToken(Split(sentence))
                   ELSE BlankTokenIndex(Split(sentence))
  IN FillInBlankExercise(<<"fib", n>>, difficulty, <<item.id>>, sentence,
                         blank_pos, english,
                         IF DIFFICULTY_CONFIG[difficulty].show_hints
                           THEN german ELSE None,
                         word_type)

\* variant: the first letter is revealed on every tier that shows hints
HangmanFor_RevealOnHints(item, difficulty, n) ==
  LET english == GetEnglish(item)
      config == DIFFICULTY_CONFIG[difficulty]
      revealed == IF config.show_hints /\ Len(english) > 0
                    THEN <<0>> ELSE <<>>
  IN HangmanExercise(<<"hang", n>>, difficulty, <<item.id>>, english,
                     GetGerman(item), item.wordType, config.hangman_attempts,
                     revealed)

\* the body of the loop of generate_hangman for one selected item
HangmanFor(item, difficulty, n) ==
  LET english == GetEnglish(item)
      config == DIFFICULTY_CONFIG[difficulty]
      revealed == IF config.reveal_first_letter /\ Len(english) > 0
                    THEN <<0>> ELSE <<>>
  IN HangmanExercise(<<"hang", n>>, difficulty, <<item.id>>, english,
                     GetGerman(item), item.wordType, config.hangman_attempts,
                     revealed)

\* str(n) for a natural number
Digits == <<"0", "1", "2", "3", "4", "5", "6", "7", "8", "9">>

RECURSIVE Str(_)
Str(n) == IF n < 10 THEN <<Digits[n + 1]>>
          ELSE Str(n \div 10) \o <<Digits[(n % 10) + 1]>>

StartsWith == <<"S", "t", "a", "r", "t", "s", " ", "w", "i", "t", "h", " ", "'">>
Letters == <<" ", "l", "e", "t", "t", "e", "r", "s">>

\* variant: the first letter is given on every tier that shows hints
SpellingHint_FirstLetterOnHints(english, difficulty) ==
  IF DIFFICULTY_CONFIG[difficulty].show_hints
    THEN StartsWith \o <<UpperChar(english[1])>> \o <<"'", ",", " ">>
           \o Str(Len(english)) \o Letters
    ELSE None

\* the hint built by generate_spelling
SpellingHint(english, difficulty) ==
  LET config == DIFFICULTY_CONFIG[difficulty]
  IN IF config.show_hints
       THEN IF config.reveal_first_letter
              THEN StartsWith \o <<UpperChar(english[1])>> \o <<"'", ",", " ">>
                     \o Str(Len(english)) \o Letters
              ELSE Str(Len(english)) \o Letters
       ELSE None

\* the exercise generate_spelling appends for item once the scramble is done
SpellingFor(item, difficulty, n, scrambled) ==
  SpellingExercise(<<"spell", n>>, difficulty, <<item.id>>, GetGerman(item),
                   GetEnglish(item), scrambled,
                   SpellingHint(GetEnglish(item), difficulty))

\* the pairs and the exercise generate_matching builds from one slice
PairsOf(slice) ==
  [i \in 1..Len(slice) |->
     MatchingPair(GetEnglish(slice[i]), GetGerman(slice[i]), slice[i].id)]

\* variant: another field of the item is recorded where its id belongs
MatchingFor_WrongIds(slice, difficulty, n, shuffled) ==
  MatchingExercise(<<"match", n>>, difficulty,
                   [i \in 1..Len(slice) |-> slice[i].wordType],
                   PairsOf(slice), shuffled)

MatchingFor(slice, difficulty, n, shuffled) ==
  LET pairs == PairsOf(slice)
  IN MatchingExercise(<<"match", n>>, difficulty,
                      [i \in 1..Len(pairs) |-> pairs[i].vocabulary_id],
                      pairs, shuffled)

\* f"{exercise_type.value.replace('_', ' ').title()} - {difficulty.value.title()}"
Title(v) ==
  CASE v = FILL_IN_BLANK -> "Fill In Blank"
    [] v = MATCHING -> "Matching"
    [] v = SPELLING -> "Spelling"
    [] v = HANGMAN -> "Hangman"
    [] v = EASY -> "Easy"
    [] v = MEDIUM -> "Medium"
    [] v = HARD -> "Hard"

DefaultName(exercise_type, difficulty) ==
  <<Title(exercise_type), " - ", Title(difficulty)>>

\* ------------------------------------------------------------------ state
VARIABLES
  vocabulary,   \* self.vocabulary of the generator
  by_word_type, \* self.by_word_type: word type -> items of that type
  by_length,    \* self.by_length: word length -> items of that length
  kept,         \* the dictionary a caller collects returned sets in
  failure,      \* the exception the last export call let through, if any
  pc,           \* position of the running generation operation
  frame,        \* arguments of the running operation and of its caller
  todo,         \* generate_spelling: the selected items not yet processed
  remaining,    \* generate_matching: the shuffled pool not yet sliced
  exercises,    \* the exercises list being built
  letters,      \* generate_spelling: the scrambled letters of the current item
  attempts,     \* generate_spelling: the retry counter of the current item
  ret,          \* the outcome of the last completed generator call
  files,        \* the documents under output_dir, by relative path
  dirs,         \* the directories under output_dir
  exports,      \* number of exports performed
  exported,     \* the dictionary the last export_all returned
  all_sets,     \* generate_all_sets: its loop position and its sets dictionary
  clock         \* the latest reading of datetime.now

vars == <<vocabulary, by_word_type, by_length, pc, frame, todo, remaining,
          exercises, letters, attempts,
          ret, files, dirs, exports, exported, all_sets, kept,
          failure, clock>>

\* the state of the generator object
generator == <<vocabulary, by_word_type, by_length>>

\* what no generation operation touches
driver == <<files, dirs, exports, exported, all_sets, kept, failure>>

NoFrame == [op |-> None]
NoRet == [op |-> None]
NoAll == [op |-> None]
NoFailure == [error |-> None]

\* uuid4 of an ExerciseSet: no operation reads or compares the id of a set,
\* one token stands for every draw
SetId == <<"set", 1>>

\* the values datetime.now can return to a call: readings never decrease
Readings(wrap) == IF wrap THEN clock..MaxTime ELSE {clock}

\* the exercise kinds generate_exercise_set may be handed: the members of
\* the enumeration and a value that is none of them
TypeInputs == ExerciseTypes \cup {"quiz"}
NameInputs == {None, "", "Unit 1"}

Frame(op, difficulty, count, wrap, name) ==
  [op |-> op, difficulty |-> difficulty, count |-> count, wrap |-> wrap,
   name |-> name]

\* what the caller gets back: the list itself, or, through
\* generate_exercise_set, the ExerciseSet built around it
Returned(fr, exs, now) ==
  IF fr.wrap
    THEN [op |-> "generate_exercise_set", exercise_type |-> fr.op,
          difficulty |-> fr.difficulty, count |-> fr.count, raised |-> None,
          value |-> ExerciseSet(SetId,
                                IF fr.name = None \/ fr.name = ""
                                  THEN DefaultName(fr.op, fr.difficulty)
                                  ELSE fr.name,
                                fr.op, fr.difficulty, exs, now)]
    ELSE [op |-> fr.op, exercise_type |-> fr.op, difficulty |-> fr.difficulty,
          count |-> fr.count, raised |-> None, value |-> exs]

\* an exception leaves the call, through generate_exercise_set if it wraps it
Raised(fr, error, message) ==
  [op |-> IF fr.wrap THEN "generate_exercise_set" ELSE fr.op,
   exercise_type |-> fr.op, difficulty |-> fr.difficulty, count |-> fr.count,
   raised |-> error, message |-> message, value |-> <<>>]

\* the message of the ValueError random.sample raises
SampleMessage == <<"Sample larger than population or is negative">>

\* _build_indices() at the end of __init__
Indexed ==
  /\ by_word_type = ByWordType(vocabulary)
  /\ by_length = ByLength(vocabulary)

Idle ==
  /\ pc' = "idle"
  /\ frame' = NoFrame
  /\ todo' = <<>>
  /\ remaining' = <<>>
  /\ exercises' = <<>>
  /\ letters' = <<>>
  /\ attempts' = 0

Init ==
  /\ vocabulary \in Vocabularies
  /\ Indexed
  /\ pc = "idle"
  /\ frame = NoFrame
  /\ todo = <<>>
  /\ remaining = <<>>
  /\ exercises = <<>>
  /\ letters = <<>>
  /\ attempts = 0
  /\ ret = NoRet
  /\ files = <<>>
  /\ dirs = {}
  /\ exports = 0
  /\ exported = <<>>
  /\ all_sets = NoAll
  /\ kept = <<>>
  /\ failure = NoFailure
  /\ clock = 1

\* a generator constructed from one of the scenario vocabularies
InitScenario ==
  /\ vocabulary \in ScenarioVocabularies
  /\ Indexed
  /\ pc = "idle"
  /\ frame = NoFrame
  /\ todo = <<>>
  /\ remaining = <<>>
  /\ exercises = <<>>
  /\ letters = <<>>
  /\ attempts = 0
  /\ ret = NoRet
  /\ files = <<>>
  /\ dirs = {}
  /\ exports = 0
  /\ exported = <<>>
  /\ all_sets = NoAll
  /\ kept = <<>>
  /\ failure = NoFailure
  /\ clock = 1

\* ------------------------------------------------ generate_fill_in_blank
HasExample(item) == Truthy(GetExampleSentence(item))
LacksExample(item) == ~Truthy(GetExampleSentence(item))

\* variant: one sample from the whole pool, examples or not
FillInBlankSelections_NoPreference(vocab, count) == SelectRandom(vocab, count)

\* the lists "selected" can be after the two _select_random calls
FillInBlankSelections(vocab, count) ==
  LET with_examples == SelectSeq(vocab, HasExample)
      without_examples == SelectSeq(vocab, LacksExample)
  IN UNION { { first \o rest :
                 rest \in IF Len(first) < count
                            THEN SelectRandom(without_examples,
                                              count - Len(first))
                            ELSE {<<>>} } :
             first \in SelectRandom(with_examples, count) }

FillInBlankCall(fr) ==
  LET vocab == FilterByDifficulty(vocabulary, fr.difficulty)
  IN /\ IF SelectRaises(SelectSeq(vocab, HasExample), fr.count)
          THEN /\ ret' = Raised(fr, "ValueError", SampleMessage)
               /\ clock' = clock
          ELSE \E selected \in FillInBlankSelections(vocab, fr.count) :
               \E ids \in [1..Len(selected) -> IdSpace] :
               \E now \in Readings(fr.wrap) :
                 /\ ret' = Returned(fr,
                             [i \in 1..Len(selected) |->
                                FillInBlankFor(selected[i], fr.difficulty,
                                               ids[i])],
                             now)
                 /\ clock' = now
     /\ Idle
     /\ UNCHANGED <<generator, driver>>

\* ------------------------------------------------------ generate_hangman
HangmanCall(fr) ==
  LET vocab == FilterByDifficulty(vocabulary, fr.difficulty)
  IN /\ IF SelectRaises(vocab, fr.count)
          THEN /\ ret' = Raised(fr, "ValueError", SampleMessage)
               /\ clock' = clock
          ELSE \E selected \in SelectRandom(vocab, fr.count) :
               \E ids \in [1..Len(selected) -> IdSpace] :
               \E now \in Readings(fr.wrap) :
                 /\ ret' = Returned(fr,
                             [i \in 1..Len(selected) |->
                                HangmanFor(selected[i], fr.difficulty, ids[i])],
                             now)
                 /\ clock' = now
     /\ Idle
     /\ UNCHANGED <<generator, driver>>

\* ----------------------------------------------------- generate_matching
Min(a, b) == IF a < b THEN a ELSE b

\* variant: self.vocabulary itself is shuffled, then filtered
MatchingStart_InPlace(fr) ==
  /\ pc' = "matching"
  /\ frame' = fr
  /\ vocabulary' \in Shuffles(vocabulary)
  /\ remaining' = FilterByDifficulty(vocabulary', fr.difficulty)
  /\ exercises' = <<>>
  /\ ret' = NoRet
  /\ UNCHANGED <<by_word_type, by_length, todo, letters, attempts, driver, clock>>

\* remaining = vocabulary.copy(); random.shuffle(remaining)
MatchingStart(fr) ==
  /\ pc' = "matching"
  /\ frame' = fr
  /\ remaining' \in Shuffles(FilterByDifficulty(vocabulary, fr.difficulty))
  /\ exercises' = <<>>
  /\ ret' = NoRet
  /\ UNCHANGED <<generator, todo, letters, attempts, driver, clock>>

\* variant: the pool is reshuffled before every slice
RoundPools_AlwaysRefill(rest, vocab, pairs_per_exercise) == Shuffles(vocab)

\* variant: the pool is never refilled
RoundPools_NoRefill(rest, vocab, pairs_per_exercise) == {rest}

\* the pools one iteration can slice from: the rest of the current pool, or
\* on a refill any shuffle of the whole eligible pool
RoundPools(rest, vocab, pairs_per_exercise) ==
  IF Len(rest) < pairs_per_exercise THEN Shuffles(vocab) ELSE {rest}

\* variant: the right column is resampled with replacement
ShuffledRights_Resampled(pairs) ==
  [1..Len(pairs) -> {pairs[i].right : i \in 1..Len(pairs)}]

\* variant: the left column is shuffled in place of the right one
ShuffledRights_OfLefts(pairs) ==
  Shuffles([i \in 1..Len(pairs) |-> pairs[i].left])

\* shuffled = [p.right for p in pairs]; random.shuffle(shuffled)
ShuffledRights(pairs) == Shuffles([i \in 1..Len(pairs) |-> pairs[i].right])

\* one iteration of "for _ in range(count)"
MatchingRound ==
  /\ pc = "matching"
  /\ Len(exercises) < frame.count
  /\ LET pairs_per_exercise == DIFFICULTY_CONFIG[frame.difficulty].matching_pairs
         vocab == FilterByDifficulty(vocabulary, frame.difficulty)
     IN \E pool \in RoundPools(remaining, vocab, pairs_per_exercise) :
          LET selected == SubSeq(pool, 1, Min(pairs_per_exercise, Len(pool)))
          IN \E shuffled \in ShuffledRights(PairsOf(selected)) :
             \E n \in IdSpace :
               /\ remaining' = SubSeq(pool, pairs_per_exercise + 1, Len(pool))
               /\ exercises' = Append(exercises,
                                 MatchingFor(selected, frame.difficulty, n,
                                             shuffled))
  /\ UNCHANGED <<generator, pc, frame, todo, letters, attempts, ret, driver, clock>>

MatchingReturn ==
  /\ pc = "matching"
  /\ Len(exercises) >= frame.count
  /\ \E now \in Readings(frame.wrap) :
       /\ ret' = Returned(frame, exercises, now)
       /\ clock' = now
  /\ Idle
  /\ UNCHANGED <<generator, driver>>

\* ----------------------------------------------------- generate_spelling
ScrambleRetries == 10

\* variant: the word is scrambled without being lower-cased
Scrambles_NoLower(english) == Shuffles(english)

\* letters = list(english.lower()); random.shuffle(letters)
Scrambles(english) == Shuffles(Lower(english))

\* variant: the loop has no attempt limit
ScrambleAgain_Unbounded(scrambled, english, tries) ==
  scrambled = Lower(english)

\* variant: one retry too many
ScrambleAgain_OffByOne(scrambled, english, tries) ==
  scrambled = Lower(english) /\ tries <= ScrambleRetries

\* the condition of the while loop
ScrambleAgain(scrambled, english, tries) ==
  scrambled = Lower(english) /\ tries < ScrambleRetries

SpellingStart(fr) ==
  LET vocab == FilterByDifficulty(vocabulary, fr.difficulty)
  IN IF SelectRaises(vocab, fr.count)
       THEN /\ ret' = Raised(fr, "ValueError", SampleMessage)
            /\ Idle
            /\ UNCHANGED <<generator, driver, clock>>
       ELSE /\ todo' \in SelectRandom(vocab, fr.count)
            /\ pc' = "spelling"
            /\ frame' = fr
            /\ exercises' = <<>>
            /\ ret' = NoRet
            /\ UNCHANGED <<generator, remaining, letters, attempts, driver, clock>>

\* letters = list(english.lower()); random.shuffle(letters); attempts = 0
SpellingScramble ==
  /\ pc = "spelling"
  /\ todo # <<>>
  /\ letters' \in Scrambles(GetEnglish(Head(todo)))
  /\ attempts' = 0
  /\ pc' = "scramble"
  /\ UNCHANGED <<generator, frame, todo, remaining, exercises, ret, driver, clock>>

\* one pass through the body of the while loop
SpellingRetry ==
  /\ pc = "scramble"
  /\ ScrambleAgain(letters, GetEnglish(Head(todo)), attempts)
  /\ letters' \in Shuffles(letters)
  /\ attempts' = attempts + 1
  /\ UNCHANGED <<generator, pc, frame, todo, remaining, exercises, ret, driver, clock>>

\* the loop is left: the exercise is built and appended
SpellingAppend ==
  /\ pc = "scramble"
  /\ ~ScrambleAgain(letters, GetEnglish(Head(todo)), attempts)
  /\ \E n \in IdSpace :
       exercises' = Append(exercises,
                      SpellingFor(Head(todo), frame.difficulty, n, letters))
  /\ todo' = Tail(todo)
  /\ letters' = <<>>
  /\ attempts' = 0
  /\ pc' = "spelling"
  /\ UNCHANGED <<generator, frame, remaining, ret, driver, clock>>

SpellingReturn ==
  /\ pc = "spelling"
  /\ todo = <<>>
  /\ \E now \in Readings(frame.wrap) :
       /\ ret' = Returned(frame, exercises, now)
       /\ clock' = now
  /\ Idle
  /\ UNCHANGED <<generator, driver>>

\* ------------------------------------------------------ public operations
\* a run is one call on a freshly constructed generator, then the exports of
\* what it returned
CanCall ==
  /\ pc = "idle"
  /\ ret = NoRet
  /\ exports = 0
  /\ all_sets = NoAll
  /\ Len(kept) < MaxKept

GenerateFillInBlank(difficulty, count) ==
  /\ CanCall
  /\ FillInBlankCall(Frame(FILL_IN_BLANK, difficulty, count, FALSE, None))

GenerateMatching(difficulty, count) ==
  /\ CanCall
  /\ MatchingStart(Frame(MATCHING, difficulty, count, FALSE, None))

GenerateSpelling(difficulty, count) ==
  /\ CanCall
  /\ SpellingStart(Frame(SPELLING, difficulty, count, FALSE, None))

GenerateHangman(difficulty, count) ==
  /\ CanCall
  /\ HangmanCall(Frame(HANGMAN, difficulty, count, FALSE, None))

\* f"Unknown exercise type: {exercise_type}"
UnknownTypeMessage(exercise_type) == <<"Unknown exercise type: ", exercise_type>>

\* variant: generators[exercise_type] in place of generators.get
ExerciseSetCall_Subscript(exercise_type, difficulty, count, name) ==
  LET fr == Frame(exercise_type, difficulty, count, TRUE, name)
  IN CASE exercise_type = FILL_IN_BLANK -> FillInBlankCall(fr)
       [] exercise_type = MATCHING -> MatchingStart(fr)
       [] exercise_type = SPELLING -> SpellingStart(fr)
       [] exercise_type = HANGMAN -> HangmanCall(fr)
       [] OTHER -> /\ ret' = Raised(fr, "KeyError", <<exercise_type>>)
                   /\ Idle
                   /\ UNCHANGED <<generator, driver, clock>>

\* the body of generate_exercise_set: generators.get(exercise_type), raise
\* ValueError if there is none, else run the generator and wrap its list
ExerciseSetCall(exercise_type, difficulty, count, name) ==
  LET fr == Frame(exercise_type, difficulty, count, TRUE, name)
  IN CASE exercise_type = FILL_IN_BLANK -> FillInBlankCall(fr)
       [] exercise_type = MATCHING -> MatchingStart(fr)
       [] exercise_type = SPELLING -> SpellingStart(fr)
       [] exercise_type = HANGMAN -> HangmanCall(fr)
       [] OTHER -> /\ ret' = Raised(fr, "ValueError",
                                    UnknownTypeMessage(exercise_type))
                   /\ Idle
                   /\ UNCHANGED <<generator, driver, clock>>

GenerateExerciseSet(exercise_type, difficulty, count, name) ==
  /\ CanCall
  /\ ExerciseSetCall(exercise_type, difficulty, count, name)

\* ----------------------------------------------------- generate_all_sets
\* variant: the kind is put before the difficulty
SetKey_KindFirst(difficulty, exercise_type) == <<exercise_type, "_", difficulty>>

\* f"{difficulty.value}_{exercise_type.value}"
SetKey(difficulty, exercise_type) == <<difficulty, "_", exercise_type>>

\* d[key] = value on a dictionary kept as the list of its items
DictPut(dict, key, value) ==
  IF \E i \in 1..Len(dict) : dict[i].key = key
    THEN [i \in 1..Len(dict) |->
            IF dict[i].key = key THEN [key |-> key, value |-> value]
            ELSE dict[i]]
    ELSE Append(dict, [key |-> key, value |-> value])

\* the k-th pair of "for difficulty in Difficulty: for exercise_type in
\* ExerciseType"
PairCount == Len(Difficulty) * Len(ExerciseType)
DifficultyAt(k) == Difficulty[((k - 1) \div Len(ExerciseType)) + 1]
ExerciseTypeAt(k) == ExerciseType[((k - 1) % Len(ExerciseType)) + 1]

\* sets = {}
GenerateAllSets(count_per_set) ==
  /\ CanCall
  /\ all_sets' = [op |-> "generate_all_sets", k |-> 1, count |-> count_per_set,
                  sets |-> <<>>]
  /\ UNCHANGED <<generator, pc, frame, todo, remaining, exercises, letters,
                 attempts, ret, files, dirs, exports, exported, clock, kept, failure>>

\* the call of generate_exercise_set of one iteration
AllSetsCall ==
  /\ all_sets # NoAll
  /\ pc = "idle"
  /\ ret = NoRet
  /\ all_sets.k <= PairCount
  /\ ExerciseSetCall(ExerciseTypeAt(all_sets.k), DifficultyAt(all_sets.k),
                     all_sets.count, None)

\* sets[key] = the set the call returned; an exception leaves the loop
AllSetsStore ==
  /\ all_sets # NoAll
  /\ pc = "idle"
  /\ ret # NoRet
  /\ IF ret.raised # None
       THEN /\ ret' = [ret EXCEPT !.op = "generate_all_sets"]
            /\ all_sets' = NoAll
       ELSE /\ ret' = NoRet
            /\ all_sets' =
                 [all_sets EXCEPT
                    !.sets = DictPut(@, SetKey(DifficultyAt(all_sets.k),
                                               ExerciseTypeAt(all_sets.k)),
                                     ret.value),
                    !.k = @ + 1]
  /\ UNCHANGED <<generator, pc, frame, todo, remaining, exercises, letters,
                 attempts, files, dirs, exports, exported, clock, kept, failure>>

\* return sets
AllSetsReturn ==
  /\ all_sets # NoAll
  /\ pc = "idle"
  /\ ret = NoRet
  /\ all_sets.k > PairCount
  /\ ret' = [op |-> "generate_all_sets", count |-> all_sets.count,
             raised |-> None, value |-> all_sets.sets]
  /\ all_sets' = NoAll
  /\ UNCHANGED <<generator, pc, frame, todo, remaining, exercises, letters,
                 attempts, files, dirs, exports, exported, clock, kept, failure>>

\* ----------------------------------------------------------------- export
SetPath(set) == <<set.difficulty, set.exercise_type, ".json">>
ManifestPath == <<"manifest.json">>
AnswersPath == <<"answers.json">>

\* open(path, "w") followed by json.dump: the file holds exactly doc
WriteFile(fs, path, doc) ==
  [p \in (DOMAIN fs) \cup {path} |-> IF p = path THEN doc ELSE fs[p]]

\* variant: the document is stamped with the number of the export
ExportSet_Restamped ==
  /\ pc = "idle"
  /\ all_sets = NoAll
  /\ ret.op = "generate_exercise_set"
  /\ ret.raised = None
  /\ exports < MaxExports
  /\ dirs' = dirs \cup Difficulties
  /\ files' = WriteFile(files, SetPath(ret.value),
                        [ExerciseSetToDict(ret.value) EXCEPT
                           !.createdAt = ret.value.created_at + exports])
  /\ exports' = exports + 1
  /\ UNCHANGED <<generator, pc, frame, todo, remaining, exercises, letters,
                 attempts, ret, exported, all_sets, clock, kept>>
  /\ failure' = NoFailure

\* export_set applied to the set the last generate_exercise_set returned
ExportSet ==
  /\ pc = "idle"
  /\ all_sets = NoAll
  /\ ret.op = "generate_exercise_set"
  /\ ret.raised = None
  /\ exports < MaxExports
  /\ dirs' = dirs \cup Difficulties
  /\ files' = WriteFile(files, SetPath(ret.value), ExerciseSetToDict(ret.value))
  /\ exports' = exports + 1
  /\ UNCHANGED <<generator, pc, frame, todo, remaining, exercises, letters,
                 attempts, ret, exported, all_sets, clock, kept>>
  /\ failure' = NoFailure

\* exercise_sets[key] = the set generate_exercise_set returned, under a key
\* of the caller's choice
CallerKeys == {<<"first">>, <<"second">>}

Keep(key) ==
  /\ pc = "idle"
  /\ all_sets = NoAll
  /\ exports = 0
  /\ ret.op = "generate_exercise_set"
  /\ ret.raised = None
  /\ Len(kept) < MaxKept
  /\ kept' = DictPut(kept, key, ret.value)
  /\ ret' = NoRet
  /\ UNCHANGED <<generator, pc, frame, todo, remaining, exercises, letters,
                 attempts, files, dirs, exports, exported, all_sets, clock, failure>>

\* a dictionary of sets is at hand: the one generate_all_sets returned, or
\* the one the command line driver fills with the set of its call
HasMapping ==
  /\ pc = "idle"
  /\ all_sets = NoAll
  /\ \/ kept # <<>>
     \/ /\ ret.op \in {"generate_all_sets", "generate_exercise_set"}
        /\ ret.raised = None

Mapping ==
  IF kept # <<>> THEN kept
  ELSE IF ret.op = "generate_all_sets" THEN ret.value
  ELSE DictPut(<<>>, SetKey(ret.value.difficulty, ret.value.exercise_type),
               ret.value)

\* the files after the export_set calls of the loop of export_all, from the
\* i-th item on
RECURSIVE WriteSets(_, _, _)
WriteSets(fs, exercise_sets, i) ==
  IF i > Len(exercise_sets) THEN fs
  ELSE WriteSets(WriteFile(fs, SetPath(exercise_sets[i].value),
                           ExerciseSetToDict(exercise_sets[i].value)),
                 exercise_sets, i + 1)

ManifestEntry(key, exercise_set) ==
  [key |-> key, path |-> SetPath(exercise_set),
   type |-> exercise_set.exercise_type, difficulty |-> exercise_set.difficulty,
   exerciseCount |-> Len(exercise_set.exercises), name |-> exercise_set.name]

\* variant: the answers document is listed with the sets
Manifest_ListsAnswers(exercise_sets, now) ==
  [version |-> "1.0", generatedAt |-> now, totalSets |-> Len(exercise_sets),
   sets |-> Append([i \in 1..Len(exercise_sets) |->
                      ManifestEntry(exercise_sets[i].key, exercise_sets[i].value)],
                   [key |-> <<"answers">>, path |-> AnswersPath,
                    type |-> None, difficulty |-> None, exerciseCount |-> 0,
                    name |-> "answers"])]

Manifest(exercise_sets, now) ==
  [version |-> "1.0", generatedAt |-> now, totalSets |-> Len(exercise_sets),
   sets |-> [i \in 1..Len(exercise_sets) |->
               ManifestEntry(exercise_sets[i].key, exercise_sets[i].value)]]

\* what is left of a file whose write broke off
Torn == [truncated |-> TRUE]

\* variant: the files written before the failure are taken back
FailedFiles_RolledBack(fs, exercise_sets, k, torn) == fs

\* the files after an export_all whose k-th export_set raised: the sets
\* before the k-th are written; the k-th file is untouched if open() raised
\* and torn if json.dump raised
FailedFiles(fs, exercise_sets, k, torn) ==
  LET before == WriteSets(fs, SubSeq(exercise_sets, 1, k - 1), 1)
  IN IF torn THEN WriteFile(before, SetPath(exercise_sets[k].value), Torn)
     ELSE before

\* export_all(exercise_sets) with an OSError in the k-th export_set: the
\* exception leaves the loop and the function
ExportAllFails ==
  /\ HasMapping
  /\ exports < MaxExports
  /\ dirs' = dirs \cup Difficulties
  /\ \E k \in 1..Len(Mapping), torn \in BOOLEAN :
       /\ files' = FailedFiles(files, Mapping, k, torn)
       /\ failure' = [error |-> "OSError", at |-> k, torn |-> torn]
  /\ exports' = exports + 1
  /\ UNCHANGED <<generator, pc, frame, todo, remaining, exercises, letters,
                 attempts, ret, exported, all_sets, kept, clock>>

\* export_all(exercise_sets): every set, then the manifest
ExportAll ==
  /\ HasMapping
  /\ exports < MaxExports
  /\ dirs' = dirs \cup Difficulties
  /\ \E now \in Readings(TRUE) :
       /\ files' = WriteFile(WriteSets(files, Mapping, 1), ManifestPath,
                             Manifest(Mapping, now))
       /\ clock' = now
  /\ exported' = [i \in 1..Len(Mapping) |->
                    [key |-> Mapping[i].key, value |-> SetPath(Mapping[i].value)]]
  /\ exports' = exports + 1
  /\ UNCHANGED <<generator, pc, frame, todo, remaining, exercises, letters,
                 attempts, ret, all_sets, kept>>
  /\ failure' = NoFailure

\* exercise_dict.get(field), exercise_dict.get(field, default)
Get(dict, field, default) == IF field \in DOMAIN dict THEN dict[field] ELSE default

\* {p["left"]: p["right"] for p in pairs}: a later pair replaces an earlier
\* one with the same left
PairsDict(pairs) ==
  [left \in {pairs[i].left : i \in 1..Len(pairs)} |->
     pairs[CHOOSE i \in 1..Len(pairs) :
             /\ pairs[i].left = left
             /\ \A j \in (i + 1)..Len(pairs) : pairs[j].left # left].right]

\* variant: the spelling answer is taken from the word shown to the student
AnswerPayload_ShownWord(exercise_type, exercise_dict) ==
  CASE exercise_type = FILL_IN_BLANK ->
         [answer |-> Get(exercise_dict, "correctAnswer", None)]
    [] exercise_type = MATCHING ->
         [pairs |-> PairsDict(Get(exercise_dict, "pairs", <<>>))]
    [] exercise_type = SPELLING ->
         [answer |-> Get(exercise_dict, "germanWord", None)]
    [] exercise_type = HANGMAN ->
         [answer |-> Get(exercise_dict, "hint", None)]

\* the value stored for one exercise, selected by the kind of its set
AnswerPayload(exercise_type, exercise_dict) ==
  CASE exercise_type = FILL_IN_BLANK ->
         [answer |-> Get(exercise_dict, "correctAnswer", None)]
    [] exercise_type = MATCHING ->
         [pairs |-> PairsDict(Get(exercise_dict, "pairs", <<>>))]
    [] exercise_type = SPELLING ->
         [answer |-> Get(exercise_dict, "englishWord", None)]
    [] exercise_type = HANGMAN ->
         [answer |-> Get(exercise_dict, "word", None)]

\* set_answers after the inner loop: a later exercise replaces an earlier
\* one with the same id
SetAnswers(exercise_set) ==
  LET exs == exercise_set.exercises
  IN [id \in {exs[i].id : i \in 1..Len(exs)} |->
        AnswerPayload(exercise_set.exercise_type,
                      ExerciseToDict(exs[CHOOSE i \in 1..Len(exs) :
                                           /\ exs[i].id = id
                                           /\ \A j \in (i + 1)..Len(exs) :
                                                exs[j].id # id]))]

\* answers after the outer loop: answers[key] = set_answers
Answers(exercise_sets) ==
  [key \in {exercise_sets[i].key : i \in 1..Len(exercise_sets)} |->
     SetAnswers(exercise_sets[CHOOSE i \in 1..Len(exercise_sets) :
                                exercise_sets[i].key = key].value)]

\* export_answers(exercise_sets)
ExportAnswers ==
  /\ HasMapping
  /\ exports < MaxExports
  /\ dirs' = dirs \cup Difficulties
  /\ files' = WriteFile(files, AnswersPath, Answers(Mapping))
  /\ exports' = exports + 1
  /\ UNCHANGED <<generator, pc, frame, todo, remaining, exercises, letters,
                 attempts, ret, exported, all_sets, clock, kept>>
  /\ failure' = NoFailure

\* ------------------------------------------------------------------- spec
\* the generation operations and their steps
Generate ==
  \/ \E d \in Difficulties, c \in Counts : GenerateFillInBlank(d, c)
  \/ \E d \in Difficulties, c \in Counts : GenerateMatching(d, c)
  \/ \E d \in Difficulties, c \in Counts : GenerateSpelling(d, c)
  \/ \E d \in Difficulties, c \in Counts : GenerateHangman(d, c)
  \/ \E t \in TypeInputs, d \in Difficulties, c \in Counts, n \in NameInputs :
       GenerateExerciseSet(t, d, c, n)
  \/ MatchingRound
  \/ MatchingReturn
  \/ SpellingScramble
  \/ SpellingRetry
  \/ SpellingAppend
  \/ SpellingReturn

Next ==
  \/ Generate
  \/ ExportSet
  \/ ExportAll
  \/ ExportAnswers

Spec == Init /\ [][Next]_vars

\* one generation call over a scenario vocabulary
SpecScenario == InitScenario /\ [][Generate]_vars

\* the vocabularies generate_all_sets is run over: none, and one word that
\* only the Hard tier admits
AllSetsVocabularies == {<<>>, <<ItemPool[5]>>}

InitAll ==
  /\ vocabulary \in AllSetsVocabularies
  /\ Indexed
  /\ pc = "idle"
  /\ frame = NoFrame
  /\ todo = <<>>
  /\ remaining = <<>>
  /\ exercises = <<>>
  /\ letters = <<>>
  /\ attempts = 0
  /\ ret = NoRet
  /\ files = <<>>
  /\ dirs = {}
  /\ exports = 0
  /\ exported = <<>>
  /\ all_sets = NoAll
  /\ kept = <<>>
  /\ failure = NoFailure
  /\ clock = 1

\* a run is one call of generate_all_sets, then the exports of its result
NextAll ==
  \/ \E c \in Counts : GenerateAllSets(c)
  \/ AllSetsCall
  \/ AllSetsStore
  \/ AllSetsReturn
  \/ MatchingRound
  \/ MatchingReturn
  \/ SpellingScramble
  \/ SpellingRetry
  \/ SpellingAppend
  \/ SpellingReturn
  \/ ExportAllFails
  \/ ExportAll
  \/ ExportAnswers

SpecAll == InitAll /\ [][NextAll]_vars

\* generate_spelling called on its own. Its statements run one after the
\* other: a pass of the while loop or the append that follows it is never
\* postponed for ever.
NextSpelling ==
  \/ \E d \in Difficulties, c \in Counts : GenerateSpelling(d, c)
  \/ SpellingScramble
  \/ SpellingRetry
  \/ SpellingAppend
  \/ SpellingReturn

SpecFair ==
  /\ Init
  /\ [][NextSpelling]_vars
  /\ WF_vars(SpellingRetry)
  /\ WF_vars(SpellingAppend)

\* generate_matching called on its own at the Easy tier for two exercises,
\* over a pool of two slices and over a pool of one slice and a rest
MatchingVocabularies == {EightShort, FiveShort}
MatchingCounts == {2}

InitMatching ==
  /\ vocabulary \in MatchingVocabularies
  /\ Indexed
  /\ pc = "idle"
  /\ frame = NoFrame
  /\ todo = <<>>
  /\ remaining = <<>>
  /\ exercises = <<>>
  /\ letters = <<>>
  /\ attempts = 0
  /\ ret = NoRet
  /\ files = <<>>
  /\ dirs = {}
  /\ exports = 0
  /\ exported = <<>>
  /\ all_sets = NoAll
  /\ kept = <<>>
  /\ failure = NoFailure
  /\ clock = 1

NextMatching ==
  \/ \E c \in MatchingCounts : GenerateMatching(EASY, c)
  \/ MatchingRound
  \/ MatchingReturn

SpecMatching == InitMatching /\ [][NextMatching]_vars

\* a caller that collects Easy sets of two kinds under its own keys and
\* exports the dictionary
CallerCounts == {1, 2}

InitCaller ==
  /\ vocabulary = Twins
  /\ Indexed
  /\ pc = "idle"
  /\ frame = NoFrame
  /\ todo = <<>>
  /\ remaining = <<>>
  /\ exercises = <<>>
  /\ letters = <<>>
  /\ attempts = 0
  /\ ret = NoRet
  /\ files = <<>>
  /\ dirs = {}
  /\ exports = 0
  /\ exported = <<>>
  /\ all_sets = NoAll
  /\ kept = <<>>
  /\ failure = NoFailure
  /\ clock = 1

NextCaller ==
  \/ \E t \in {MATCHING, HANGMAN}, c \in CallerCounts :
       GenerateExerciseSet(t, EASY, c, None)
  \/ MatchingRound
  \/ MatchingReturn
  \/ \E key \in CallerKeys : Keep(key)
  \/ ExportAll
  \/ ExportAnswers

SpecCaller == InitCaller /\ [][NextCaller]_vars

TypeOK ==
  /\ pc \in {"idle", "matching", "spelling", "scramble"}
  /\ attempts \in Nat
  /\ exports \in 0..MaxExports
  /\ clock \in Times

\* ------------------------------------------------------------ properties
Completed == ret.op # None
Succeeded == Completed /\ ret.raised = None

\* the exercises the completed call returned
ResultList ==
  IF ret.op = "generate_exercise_set" THEN ret.value.exercises ELSE ret.value

\* every exercise built so far: by the running call, or by the completed one
Built ==
  Range(exercises) \cup (IF Succeeded THEN Range(ResultList) ELSE {})

VocabularyIds == {vocabulary[i].id : i \in 1..Len(vocabulary)}

\* the pool the completed call drew from
Pool == FilterByDifficulty(vocabulary, ret.difficulty)

Occurrences(v, s) == Cardinality({i \in 1..Len(s) : s[i] = v})

Rights(e) == [i \in 1..Len(e.pairs) |-> e.pairs[i].right]

\* the answer word of a single-word exercise
Answer(e) ==
  CASE e.type = FILL_IN_BLANK -> e.correct_answer
    [] e.type = SPELLING -> e.english_word
    [] e.type = HANGMAN -> e.word

SingleWordKinds == {FILL_IN_BLANK, SPELLING, HANGMAN}

\* a serialized exercise carries its answer
CarriesAnswer(d) ==
  CASE d.type = FILL_IN_BLANK -> "correctAnswer" \in DOMAIN d
    [] d.type = SPELLING -> "englishWord" \in DOMAIN d
    [] d.type = HANGMAN -> "word" \in DOMAIN d
    [] d.type = MATCHING ->
         /\ "pairs" \in DOMAIN d
         /\ \E i \in 1..Len(d.pairs) : {"left", "right"} \subseteq DOMAIN d.pairs[i]

\* C1: no exercise of a set document written by export_set carries its
\* answer (the correct word, the unscrambled word, the hangman word, or the
\* true left-right pairing).
C1_SetDocumentHidesAnswers ==
  \A path \in DOMAIN files \ {ManifestPath, AnswersPath} :
    \A i \in 1..Len(files[path].exercises) :
      ~CarriesAnswer(files[path].exercises[i])

\* C2: every id in the vocabulary_ids of every generated exercise is the id
\* of an item of the generator's vocabulary list.
C2_IdsFromVocabulary ==
  \A e \in Built :
    \A i \in 1..Len(e.vocabulary_ids) : e.vocabulary_ids[i] \in VocabularyIds

\* a matching call returned an exercise that names two source items
C2_Witness ==
  /\ Succeeded
  /\ ret.exercise_type = MATCHING
  /\ \E e \in Range(ResultList) : Len(e.vocabulary_ids) = 2

\* C3: the answer word of every FillInBlank, Spelling and Hangman exercise
\* is non-empty, has at most 6 characters on Easy and at most 10 on Medium.
C3_AnswerWithinTierLength ==
  \A e \in Built :
    e.type \in SingleWordKinds =>
      /\ Answer(e) # <<>>
      /\ e.difficulty = EASY => Len(Answer(e)) <= 6
      /\ e.difficulty = MEDIUM => Len(Answer(e)) <= 10

\* an Easy call over a vocabulary holding a 7-letter word and a shorter one
\* returned an exercise
C3_Witness ==
  /\ Succeeded
  /\ ret.exercise_type \in SingleWordKinds
  /\ ret.difficulty = EASY
  /\ \E i \in 1..Len(vocabulary) : Len(GetEnglish(vocabulary[i])) = 7
  /\ Len(ResultList) = 1

\* eligibility as the difficulty table states it: Hard has no maximum
StatedEligible(item, difficulty) ==
  /\ GetEnglish(item) # <<>>
  /\ difficulty = EASY => Len(GetEnglish(item)) <= 6
  /\ difficulty = MEDIUM => Len(GetEnglish(item)) <= 10

\* C4: an item is in the pool a call filters for its tier if and only if
\* its source word is non-empty and not longer than the tier's maximum,
\* Hard having no maximum.
C4_HardIsUnbounded ==
  Completed =>
    \A i \in 1..Len(vocabulary) :
      (vocabulary[i] \in Range(Pool)) <=> StatedEligible(vocabulary[i], ret.difficulty)

\* C5: generate_fill_in_blank, generate_spelling and generate_hangman asked
\* for n >= 0 exercises over a pool of p items return exactly min(n, p)
\* exercises, no two of them from the same item.
C5_CappedNeverPadded ==
  (Succeeded /\ ret.exercise_type \in SingleWordKinds /\ ret.count >= 0) =>
    /\ Len(ResultList) = Min(ret.count, Len(Pool))
    /\ \A i, j \in 1..Len(ResultList) :
         i # j => ResultList[i].vocabulary_ids # ResultList[j].vocabulary_ids

\* generate_fill_in_blank(count 2) topped one item with an example up with
\* one without
C5_Witness ==
  /\ Succeeded
  /\ ret.exercise_type = FILL_IN_BLANK
  /\ ret.count = 2
  /\ Len(ResultList) = 2
  /\ \E i \in 1..Len(Pool) : HasExample(Pool[i])
  /\ \E i \in 1..Len(Pool) : LacksExample(Pool[i])

\* C6: a call with count >= 1 over a vocabulary with no eligible item raises
\* nothing, returns fewer exercises than asked for, and returns no exercise
\* built from no vocabulary item.
C6_EmptyPoolYieldsFewer ==
  (Completed /\ ret.count >= 1 /\ ret.exercise_type \in ExerciseTypes
     /\ Pool = <<>>) =>
    /\ ret.raised = None
    /\ Len(ResultList) < ret.count
    /\ \A e \in Range(ResultList) : e.vocabulary_ids # <<>>

\* C7: in every Matching exercise shuffled_right has the length of pairs and
\* holds every value as often as the right values of pairs do.
C7_ShuffledRightSameMultiset ==
  \A e \in Built :
    e.type = MATCHING =>
      /\ Len(e.shuffled_right) = Len(e.pairs)
      /\ \A v \in Range(e.shuffled_right) \cup Range(Rights(e)) :
           Occurrences(v, e.shuffled_right) = Occurrences(v, Rights(e))

\* a returned Matching exercise has two pairs with one right value
C7_Witness ==
  /\ Succeeded
  /\ ret.exercise_type = MATCHING
  /\ \E e \in Range(ResultList) :
       /\ Len(e.pairs) = 2
       /\ e.pairs[1].right = e.pairs[2].right

\* the right values of the pairs of e are not all equal
RightsDiffer(e) ==
  \E i, j \in 1..Len(e.pairs) : e.pairs[i].right # e.pairs[j].right

\* C8 as stated: a Matching exercise with at least two pairs whose right
\* values are not all equal presents them in another order than pairs.
C8_ShuffledDiffersFromPairOrder ==
  \A e \in Built :
    (e.type = MATCHING /\ Len(e.pairs) >= 2 /\ RightsDiffer(e)) =>
      e.shuffled_right # Rights(e)

\* C8 amended: shuffled_right is the right values of pairs taken in the
\* order of some permutation of the pair positions, the identity included.
C8_ShuffledIsArrangementOfRights ==
  \A e \in Built :
    e.type = MATCHING =>
      \E f \in [1..Len(e.shuffled_right) -> 1..Len(e.pairs)] :
        /\ \A i \in 1..Len(e.pairs) : \E j \in 1..Len(e.shuffled_right) : f[j] = i
        /\ \A j \in 1..Len(e.shuffled_right) :
             e.shuffled_right[j] = e.pairs[f[j]].right

\* a returned Matching exercise presents two different right values in
\* pair order
C8_Witness ==
  /\ Succeeded
  /\ ret.exercise_type = MATCHING
  /\ \E e \in Range(ResultList) :
       Len(e.pairs) = 2 /\ RightsDiffer(e) /\ e.shuffled_right = Rights(e)

\* s is made of the characters of t, each as often as in t
SameCharacters(s, t) ==
  /\ Len(s) = Len(t)
  /\ \A c \in Range(s) \cup Range(t) : Occurrences(c, s) = Occurrences(c, t)

\* C9: scrambled_letters is, in every Spelling exercise and at every point
\* of the retry loop, a sequence with the length and the characters of the
\* lower-cased source word.
C9_ScrambleIsPermutation ==
  /\ \A e \in Built :
       e.type = SPELLING =>
         SameCharacters(e.scrambled_letters, Lower(e.english_word))
  /\ pc = "scramble" => SameCharacters(letters, Lower(GetEnglish(Head(todo))))

\* the word "Go" was returned scrambled to o, g
C9_Witness ==
  /\ Succeeded
  /\ ret.exercise_type = SPELLING
  /\ \E e \in Range(ResultList) :
       e.english_word = <<"G", "o">> /\ e.scrambled_letters = <<"o", "g">>

\* the characters of w can be arranged in at least two ways
TwoArrangements(w) == \E i, j \in 1..Len(w) : w[i] # w[j]

C11_RevealedLetters ==
  \A e \in Built :
    e.type = HANGMAN =>
      /\ e.difficulty \in {MEDIUM, HARD} => e.revealed_letters = <<>>
      /\ (e.difficulty = EASY /\ e.word # <<>>) => e.revealed_letters = <<0>>

\* an Easy and a Medium hangman call each returned an exercise
C11_Witness ==
  /\ Succeeded
  /\ ret.exercise_type = HANGMAN
  /\ ret.difficulty \in {EASY, MEDIUM}
  /\ \E e \in Range(ResultList) :
       e.word # <<>> /\ (e.revealed_letters = <<0>> <=> e.difficulty = EASY)

ShortSleevesBlank ==
  <<"S", "h", "e", " ", "h", "a", "s", " ", "s", "h", "o", "r", "t", " ",
    "_", "_", "_", ".">>

ShortSleevesBlankS ==
  <<"S", "h", "e", " ", "h", "a", "s", " ", "s", "h", "o", "r", "t", " ",
    "_", "_", "_", "s", ".">>

\* generate_fill_in_blank(EASY, 1) returned over the vocabulary [Sleeve]
SleeveCall ==
  /\ Succeeded
  /\ vocabulary = <<Sleeve>>
  /\ ret.op = FILL_IN_BLANK
  /\ ret.difficulty = EASY
  /\ ret.count = 1

\* C12 as stated: over the single item "sleeve" / "Ärmel" with the example
\* "She has short sleeves.", generate_fill_in_blank(EASY, 1) returns one
\* exercise with answer "sleeve", sentence "She has short ___." and hint
\* "Ärmel".
C12_SleeveSentenceBlankOnly ==
  SleeveCall =>
    /\ Len(ResultList) = 1
    /\ ResultList[1].correct_answer = GetEnglish(Sleeve)
    /\ ResultList[1].sentence = ShortSleevesBlank
    /\ ResultList[1].hint = GetGerman(Sleeve)

\* C12 amended: the sentence is "She has short ___s.": the marker replaces
\* the characters of the word only, the plural ending stays.
C12_SleeveSentenceKeepsEnding ==
  SleeveCall =>
    /\ Len(ResultList) = 1
    /\ ResultList[1].correct_answer = GetEnglish(Sleeve)
    /\ ResultList[1].sentence = ShortSleevesBlankS
    /\ ResultList[1].hint = GetGerman(Sleeve)

\* the call of the scenario returned an exercise
C12_Witness == SleeveCall /\ Len(ResultList) = 1

\* C13: the sentence of every FillInBlank exercise contains the marker
\* "___", whether it comes from an example sentence or from a template.
C13_SentenceHasBlank ==
  \A e \in Built : e.type = FILL_IN_BLANK => Contains(e.sentence, BLANK)

\* C14: blank_position of a FillInBlank exercise whose sentence contains
\* the marker is the 0-based index of the first whitespace-delimited token
\* that contains the marker.
C14_BlankPositionIsFirstMarkedToken ==
  \A e \in Built :
    (e.type = FILL_IN_BLANK /\ Contains(e.sentence, BLANK)) =>
      LET words == Split(e.sentence)
      IN /\ e.blank_position + 1 \in 1..Len(words)
         /\ Contains(words[e.blank_position + 1], BLANK)
         /\ \A j \in 1..e.blank_position : ~Contains(words[j], BLANK)

UnknownKindCall ==
  /\ Completed
  /\ ret.op = "generate_exercise_set"
  /\ ret.exercise_type \notin ExerciseTypes

\* C16: generate_exercise_set handed a kind that is none of the four fails
\* at once with an error whose message names the value: no generation
\* operation is started and no set is returned; a call with one of the
\* four kinds runs the generator of that kind and no other.
C16_UnknownKindRaises ==
  /\ [](UnknownKindCall =>
          /\ ret.raised = "ValueError"
          /\ ret.message = <<"Unknown exercise type: ", ret.exercise_type>>
          /\ ret.value = <<>>)
  /\ [][(UnknownKindCall' /\ ~UnknownKindCall) =>
          (pc = "idle" /\ pc' = "idle" /\ exercises' = <<>>)]_vars
  /\ []((frame # NoFrame /\ frame.wrap) =>
          /\ frame.op \in ExerciseTypes
          /\ pc = "matching" <=> frame.op = MATCHING
          /\ pc \in {"spelling", "scramble"} <=> frame.op = SPELLING)
  /\ []((Succeeded /\ ret.op = "generate_exercise_set") =>
          /\ ret.value.exercise_type = ret.exercise_type
          /\ \A e \in Range(ret.value.exercises) : e.type = ret.exercise_type)

\* generate_exercise_set("quiz", ...) has raised
C16_Witness == UnknownKindCall /\ ret.raised # None

\* generate_all_sets has returned its dictionary
AllSetsReturned == ret.op = "generate_all_sets" /\ ret.raised = None

\* C17: the dictionary generate_all_sets returns has exactly 12 keys, the
\* key "{difficulty}_{kind}" of each of the 3 x 4 pairs, and the set under
\* a key has the kind and the difficulty of the key.
C17_TwelveKeyedSets ==
  AllSetsReturned =>
    /\ Len(ret.value) = 12
    /\ \A i, j \in 1..Len(ret.value) :
         i # j => ret.value[i].key # ret.value[j].key
    /\ {ret.value[i].key : i \in 1..Len(ret.value)}
         = {<<d, "_", t>> : d \in {"easy", "medium", "hard"},
                            t \in {"fill_in_blank", "matching", "spelling",
                                   "hangman"}}
    /\ \A i \in 1..Len(ret.value) :
         ret.value[i].key = <<ret.value[i].value.difficulty, "_",
                              ret.value[i].value.exercise_type>>

\* generate_all_sets returned over a vocabulary of one word, with a set
\* that holds an exercise
C17_Witness ==
  /\ AllSetsReturned
  /\ vocabulary # <<>>
  /\ \E i \in 1..Len(ret.value) : ret.value[i].value.exercises # <<>>

\* C18: export_set writes to the path made of the difficulty and the kind
\* of the set, touches no other file, leaves the set as it was, and
\* exporting the set again leaves the one file at that path with the
\* content the first export gave it, createdAt included.
C18_ExportSetIdempotent ==
  [][ExportSet =>
       LET set == ret.value
           path == <<set.difficulty, set.exercise_type, ".json">>
       IN /\ DOMAIN files' = DOMAIN files \cup {path}
          /\ \A q \in DOMAIN files \ {path} : files'[q] = files[q]
          /\ files'[path].createdAt = set.created_at
          /\ ret' = ret
          /\ path \in DOMAIN files => files'[path] = files[path]]_vars

\* the set was exported twice by export_set, and by nothing else
C18_Witness ==
  /\ exports = 2
  /\ ret.op = "generate_exercise_set"
  /\ DOMAIN files = {SetPath(ret.value)}
  /\ ret.value.exercises # <<>>

ManifestWritten == ManifestPath \in DOMAIN files
AnswersWritten == AnswersPath \in DOMAIN files

\* C19: after export_all the sets list of the manifest has one entry per
\* key of the dictionary, in its order, and no other entry (none for the
\* answers document); totalSets is the number of entries; an entry holds
\* the key, the relative path, and the kind, difficulty, exercise count and
\* name of the set under the key.
C19_ManifestListsEverySet ==
  ManifestWritten =>
    LET manifest == files[ManifestPath]
    IN /\ Len(manifest.sets) = Len(Mapping)
       /\ manifest.totalSets = Len(manifest.sets)
       /\ \A i, j \in 1..Len(manifest.sets) :
            i # j => manifest.sets[i].key # manifest.sets[j].key
       /\ \A i \in 1..Len(manifest.sets) :
            LET set == Mapping[i].value
            IN /\ manifest.sets[i] =
                    [key |-> Mapping[i].key,
                     path |-> <<set.difficulty, set.exercise_type, ".json">>,
                     type |-> set.exercise_type, difficulty |-> set.difficulty,
                     exerciseCount |-> Len(set.exercises), name |-> set.name]
               /\ manifest.sets[i].path # AnswersPath

\* export_all and export_answers have both run on the twelve sets of
\* generate_all_sets, one of which holds an exercise
C19_Witness ==
  /\ ManifestWritten
  /\ AnswersWritten
  /\ Len(Mapping) = 12
  /\ \E i \in 1..Len(Mapping) : Mapping[i].value.exercises # <<>>

\* the answer of an exercise, in the shape of its kind
StatedPayload(e) ==
  CASE e.type = FILL_IN_BLANK -> [answer |-> e.correct_answer]
    [] e.type = MATCHING -> [pairs |-> PairsDict(e.pairs)]
    [] e.type = SPELLING -> [answer |-> e.english_word]
    [] e.type = HANGMAN -> [answer |-> e.word]

\* the last exercise of exs that has the id of e
LastWithId(exs, e) ==
  exs[CHOOSE i \in 1..Len(exs) :
        exs[i].id = e.id /\ \A j \in (i + 1)..Len(exs) : exs[j].id # e.id]

\* C20 as stated: the id of every exercise of every set is a top-level key
\* of the answers document, with the answer payload of the exercise as its
\* value.
C20_AnswersKeyedByExerciseId ==
  AnswersWritten =>
    \A i \in 1..Len(Mapping) :
      \A e \in Range(Mapping[i].value.exercises) :
        /\ e.id \in DOMAIN files[AnswersPath]
        /\ files[AnswersPath][e.id] = StatedPayload(e)

\* C20 amended: the top-level keys of the answers document are the keys of
\* the dictionary; under the key of a set, the keys are the ids of its
\* exercises, and the value under an id is the answer payload of the last
\* exercise of the set that has this id.
C20_AnswersKeyedBySetThenId ==
  AnswersWritten =>
    /\ DOMAIN files[AnswersPath] = {Mapping[i].key : i \in 1..Len(Mapping)}
    /\ \A i \in 1..Len(Mapping) :
         LET exs == Mapping[i].value.exercises
             set_answers == files[AnswersPath][Mapping[i].key]
         IN /\ DOMAIN set_answers = {exs[j].id : j \in 1..Len(exs)}
            /\ \A e \in Range(exs) :
                 set_answers[e.id] = StatedPayload(LastWithId(exs, e))

\* export_answers has run on a set of two exercises with different ids
C20_Witness ==
  /\ AnswersWritten
  /\ \E i \in 1..Len(Mapping) :
       LET exs == Mapping[i].value.exercises
       IN Len(exs) = 2 /\ exs[1].id # exs[2].id

\* C22: no two exercises generated in one run have the same id, so the
\* answers of a set have one entry per exercise.
C22_ExerciseIdsUnique ==
  /\ Succeeded =>
       \A i, j \in 1..Len(ResultList) :
         i # j => ResultList[i].id # ResultList[j].id
  /\ (AnswersWritten /\ ret.op = "generate_exercise_set") =>
       Cardinality(DOMAIN files[AnswersPath][Mapping[1].key])
         = Len(ret.value.exercises)

\* the vocabulary item an exercise of one word was built from
ItemOf(e) ==
  vocabulary[CHOOSE i \in 1..Len(vocabulary) :
               vocabulary[i].id = e.vocabulary_ids[1]]

\* C23: generate_fill_in_blank takes an item without an example only when
\* every eligible item with an example is taken too; with w and o eligible
\* items with and without examples, max(0, min(count - w, o)) exercises
\* come from a template.
C23_ExamplesFirst ==
  (Succeeded /\ ret.exercise_type = FILL_IN_BLANK /\ ret.count >= 0) =>
    LET w == Len(SelectSeq(Pool, HasExample))
        o == Len(SelectSeq(Pool, LacksExample))
        templated == {i \in 1..Len(ResultList) : LacksExample(ItemOf(ResultList[i]))}
    IN /\ Cardinality(templated)
            = IF ret.count - w <= 0 THEN 0 ELSE Min(ret.count - w, o)
       /\ templated # {} =>
            \A k \in 1..Len(Pool) :
              HasExample(Pool[k]) =>
                \E i \in 1..Len(ResultList) :
                  ResultList[i].vocabulary_ids = <<Pool[k].id>>

\* one exercise was asked for over an item with an example and an item
\* without: the one with the example was taken
C23_Witness ==
  /\ Succeeded
  /\ ret.exercise_type = FILL_IN_BLANK
  /\ ret.count = 1
  /\ Len(ResultList) = 1
  /\ \E i \in 1..Len(Pool) : HasExample(Pool[i])
  /\ \E i \in 1..Len(Pool) : LacksExample(Pool[i])

\* C25: a FillInBlank or Spelling exercise has a hint on Easy and Medium
\* and none on Hard; the FillInBlank hint is the first translation of the
\* item, the Spelling hint gives the letter count and, on Easy only, the
\* first letter.
C25_HintsFollowTier ==
  \A e \in Built :
    e.type \in {FILL_IN_BLANK, SPELLING} =>
      /\ e.hint # None <=> e.difficulty \in {EASY, MEDIUM}
      /\ (e.type = FILL_IN_BLANK /\ e.difficulty # HARD) =>
           e.hint = GetGerman(ItemOf(e))
      /\ (e.type = SPELLING /\ e.difficulty = MEDIUM) =>
           e.hint = Str(Len(e.english_word)) \o <<" ", "l", "e", "t", "t", "e", "r", "s">>
      /\ (e.type = SPELLING /\ e.difficulty = EASY) =>
           e.hint = <<"S", "t", "a", "r", "t", "s", " ", "w", "i", "t", "h", " ", "'">>
                      \o <<UpperChar(e.english_word[1]), "'", ",", " ">>
                      \o Str(Len(e.english_word))
                      \o <<" ", "l", "e", "t", "t", "e", "r", "s">>

\* a Medium spelling call returned an exercise for a word Easy leaves out
C25_Witness ==
  /\ Succeeded
  /\ ret.exercise_type = SPELLING
  /\ ret.difficulty = MEDIUM
  /\ \E e \in Range(ResultList) : Len(e.english_word) = 7 /\ e.hint # None

\* the sets the completed call returned
SetsReturned ==
  IF AllSetsReturned THEN {ret.value[i].value : i \in 1..Len(ret.value)}
  ELSE IF Succeeded /\ ret.op = "generate_exercise_set" THEN {ret.value}
  ELSE {}

\* an answer payload that holds an answer
HoldsAnswer(payload, exercise_type) ==
  IF exercise_type = MATCHING THEN "pairs" \in DOMAIN payload
  ELSE "answer" \in DOMAIN payload
       /\ ToString(payload.answer) # ToString(None)

\* C30: every exercise of a set returned by generate_exercise_set or
\* generate_all_sets has the kind and the difficulty of the set, and
\* export_answers writes for each of them a payload that holds an answer.
C30_SetsHomogeneous ==
  /\ \A set \in SetsReturned :
       \A e \in Range(set.exercises) :
         e.type = set.exercise_type /\ e.difficulty = set.difficulty
  /\ AnswersWritten =>
       \A i \in 1..Len(Mapping) :
         \A e \in Range(Mapping[i].value.exercises) :
           /\ Mapping[i].key \in DOMAIN files[AnswersPath]
           /\ e.id \in DOMAIN files[AnswersPath][Mapping[i].key]
           /\ HoldsAnswer(files[AnswersPath][Mapping[i].key][e.id], e.type)

\* export_answers has run on the sets of generate_all_sets, which hold an
\* exercise of each kind
C30_Witness ==
  /\ AllSetsReturned
  /\ AnswersWritten
  /\ \A t \in ExerciseTypes :
       \E set \in SetsReturned : set.exercise_type = t /\ set.exercises # <<>>

\* C28: the scramble loop of generate_spelling takes at most 10 passes per
\* word, and every word whose scramble has begun is appended to the
\* exercises, in its original order when every shuffle returned that order.
C28_ScrambleTerminates ==
  /\ [](pc = "scramble" => attempts <= ScrambleRetries)
  /\ \A k \in 0..(MaxCount - 1) :
       /\ (pc = "scramble" /\ Len(exercises) = k)
            ~> (pc = "spelling" /\ Len(exercises) = k + 1)
       /\ (/\ pc = "scramble"
           /\ Len(exercises) = k
           /\ attempts = ScrambleRetries
           /\ letters = Lower(GetEnglish(Head(todo))))
            ~> (/\ pc = "spelling"
                /\ Len(exercises) = k + 1
                /\ exercises[k + 1].scrambled_letters
                     = Lower(exercises[k + 1].english_word))

\* the first shuffle and all 10 retries returned the original order of a
\* word that has one arrangement only
C28_Witness ==
  /\ pc = "scramble"
  /\ attempts = ScrambleRetries
  /\ letters = Lower(GetEnglish(Head(todo)))
  /\ ~TwoArrangements(letters)

\* a generation call is running or has completed
Generating == pc # "idle" \/ Completed \/ all_sets # NoAll

\* C27: no generation operation changes the generator: its vocabulary list
\* and its two indices stay what the constructor made them.
C27_GeneratorUnchanged ==
  /\ [][generator' = generator]_vars
  /\ [](Generating => Indexed)

\* generate_matching returned an exercise whose items are not in vocabulary
\* order, over a vocabulary that is as it was constructed
C27_Witness ==
  /\ Succeeded
  /\ ret.exercise_type = MATCHING
  /\ Indexed
  /\ \E e \in Range(ResultList) :
       /\ Len(e.vocabulary_ids) = 2
       /\ Len(vocabulary) = 2
       /\ e.vocabulary_ids = <<vocabulary[2].id, vocabulary[1].id>>

\* C21: the pairs entry that export_answers writes for a Matching exercise
\* sends the left of every pair of the exercise to its right and has as many
\* entries as the exercise has pairs, also when two items of the exercise
\* have the same source word.
C21_MatchingAnswersArePairing ==
  AnswersWritten =>
    \A i \in 1..Len(Mapping) :
      LET exs == Mapping[i].value.exercises
      IN Mapping[i].value.exercise_type = MATCHING =>
           \A e \in Range(exs) :
             LET last == LastWithId(exs, e)
                 payload == files[AnswersPath][Mapping[i].key][e.id]
             IN /\ \A k \in 1..Len(last.pairs) :
                     /\ last.pairs[k].left \in DOMAIN payload.pairs
                     /\ payload.pairs[last.pairs[k].left] = last.pairs[k].right
                /\ Cardinality(DOMAIN payload.pairs) = Len(last.pairs)

\* C29: after export_all every manifest entry's path names a set document
\* whose exerciseCount, name, kind and difficulty are those of the entry,
\* and the location returned for a key is the file that holds the set of
\* that key, also when two keys hold sets of the same difficulty and kind.
C29_ManifestMatchesFiles ==
  ManifestWritten =>
    /\ \A i \in 1..Len(files[ManifestPath].sets) :
         LET entry == files[ManifestPath].sets[i]
         IN /\ entry.path \in DOMAIN files
            /\ files[entry.path].exerciseCount = entry.exerciseCount
            /\ Len(files[entry.path].exercises) = entry.exerciseCount
            /\ files[entry.path].name = entry.name
            /\ files[entry.path].exerciseType = entry.type
            /\ files[entry.path].difficulty = entry.difficulty
    /\ \A i \in 1..Len(exported) :
         \E j \in 1..Len(Mapping) :
           /\ Mapping[j].key = exported[i].key
           /\ exported[i].value \in DOMAIN files
           /\ files[exported[i].value] = ExerciseSetToDict(Mapping[j].value)

\* the ids of a list of items
Ids(items) == [i \in 1..Len(items) |-> items[i].id]

\* the eligible pool and the slice length of the running generate_matching
MatchingPool == FilterByDifficulty(vocabulary, frame.difficulty)
PairsPerExercise == DIFFICULTY_CONFIG[frame.difficulty].matching_pairs

\* the number of exercises sliced off since the pool was last filled
SinceRefill ==
  IF Len(MatchingPool) < PairsPerExercise
    THEN (IF exercises = <<>> THEN 0 ELSE 1)
    ELSE (Len(MatchingPool) - Len(remaining)) \div PairsPerExercise

\* C24: generate_matching slices pairs_per_exercise items per exercise off
\* one shuffle of the eligible pool and refills the pool only when fewer
\* than pairs_per_exercise items remain: the exercises built since the last
\* refill and the rest of the pool share no item, and no item is twice in
\* one exercise.
C24_SlicesBetweenRefills ==
  /\ [](pc = "matching" =>
          LET n == Len(exercises)
              k == SinceRefill
          IN /\ k <= n
             /\ \A i \in 1..n : \A a, b \in 1..Len(exercises[i].vocabulary_ids) :
                  a # b => exercises[i].vocabulary_ids[a]
                             # exercises[i].vocabulary_ids[b]
             /\ \A i, j \in (n - k + 1)..n :
                  i # j => Range(exercises[i].vocabulary_ids)
                             \cap Range(exercises[j].vocabulary_ids) = {}
             /\ \A i \in (n - k + 1)..n :
                  Range(exercises[i].vocabulary_ids)
                    \cap Range(Ids(remaining)) = {})
  /\ [][(pc = "matching" /\ pc' = "matching") =>
          LET slice == exercises'[Len(exercises')].vocabulary_ids
          IN IF Len(remaining) >= PairsPerExercise
               THEN /\ slice = Ids(SubSeq(remaining, 1, PairsPerExercise))
                    /\ remaining'
                         = SubSeq(remaining, PairsPerExercise + 1, Len(remaining))
               ELSE /\ Len(slice \o Ids(remaining')) = Len(MatchingPool)
                    /\ Range(slice \o Ids(remaining'))
                         = Range(Ids(MatchingPool))]_vars

\* two exercises were sliced off one shuffle of eight items
C24_Witness ==
  /\ pc = "matching"
  /\ Len(MatchingPool) = 8
  /\ Len(exercises) = 2
  /\ SinceRefill = 2
  /\ remaining = <<>>

\* the second exercise followed a refill and reuses an item of the first
C24_WitnessRefill ==
  /\ pc = "matching"
  /\ Len(MatchingPool) = 5
  /\ Len(exercises) = 2
  /\ Range(exercises[1].vocabulary_ids)
       \cap Range(exercises[2].vocabulary_ids) # {}

\* the paths of the first k sets of the dictionary
PathsUpTo(k) == {SetPath(Mapping[i].value) : i \in 1..k}

\* the manifest is what it was before the step
ManifestKept ==
  /\ (ManifestPath \in DOMAIN files') = (ManifestPath \in DOMAIN files)
  /\ ManifestPath \in DOMAIN files => files'[ManifestPath] = files[ManifestPath]

\* C26: export_all writes the manifest only after every set; when the write
\* of the k-th set fails the error reaches the caller, the sets before the
\* k-th are in their files, no later set is written, nothing is removed,
\* and the manifest is neither written nor changed.
C26_FailureLeavesManifest ==
  /\ [][(exports' = exports + 1 /\ failure' # NoFailure) =>
          LET k == failure'.at
              path == SetPath(Mapping[k].value)
          IN /\ failure'.error = "OSError"
             /\ exported' = exported
             /\ ManifestKept
             /\ DOMAIN files \subseteq DOMAIN files'
             /\ \A i \in 1..(k - 1) :
                  /\ SetPath(Mapping[i].value) \in DOMAIN files'
                  /\ files'[SetPath(Mapping[i].value)]
                       = ExerciseSetToDict(Mapping[i].value)
             /\ \A p \in DOMAIN files' \ PathsUpTo(k) :
                  p \in DOMAIN files /\ files'[p] = files[p]
             /\ path \in DOMAIN files' \ PathsUpTo(k - 1) =>
                  \/ files'[path] = Torn
                  \/ path \in DOMAIN files /\ files'[path] = files[path]]_vars
  /\ [][~ManifestKept =>
          \A i \in 1..Len(Mapping) :
            /\ SetPath(Mapping[i].value) \in DOMAIN files'
            /\ files'[SetPath(Mapping[i].value)]
                 = ExerciseSetToDict(Mapping[i].value)]_vars

\* the write of the third set failed in a directory that held a manifest:
\* two sets are rewritten, the third file is torn
C26_Witness ==
  /\ failure # NoFailure
  /\ failure.at = 3
  /\ ManifestWritten
  /\ Len(Mapping) = 12
  /\ files[SetPath(Mapping[3].value)] = Torn
  /\ files[SetPath(Mapping[2].value)] = ExerciseSetToDict(Mapping[2].value)

====
